---- MODULE Spec2Model ----
(***************************************************************************)
(* LifelogAgentWorkflow (src/src/agentic_workflow.py): the LangGraph       *)
(* state graph  safety_check_input -> react_reason -> react_act ->         *)
(* react_observe -> {react_reason | synthesize_response} ->                *)
(* safety_check_output -> END,  driven by run(), together with the parsing *)
(* done by SafetyGuardAgent and ReActAgent (src/src/agents.py).            *)
(*                                                                         *)
(* A model reply is a record [none, lines]: none is TRUE when the API      *)
(* returned message.content = None; lines is the text, one record          *)
(* [k, sep, v] per line "k<sep>v".  sep is the text between the key and    *)
(* the value (":", ": " or ":  "), which the substring tests of the        *)
(* parsers are sensitive to and strip() is not.                            *)
(***************************************************************************)
EXTENDS Integers, Sequences, FiniteSets, TLC

VARIABLES
    max_iterations,   \* self.max_iterations
    pc,               \* the node the graph executes next, "END", or "returned"
    retrieved_data,   \* AgentState.retrieved_data
    response,         \* AgentState.response
    reasoning_steps,  \* AgentState.reasoning_steps
    safety_checks,    \* AgentState.safety_checks
    react_context,    \* AgentState.react_context
    observations,     \* AgentState.observations
    iteration_count,  \* AgentState.iteration_count
    should_continue,  \* AgentState.should_continue
    result,           \* the record run() returns
    calls,            \* history: the collaborator calls made, in order
    retrieved_counts, \* history: len(results) of every data_store.query call
    input_reply,      \* history: what the safety model replied to the input prompt
    input_result,     \* history: what check_input_safety returned
    output_result,    \* history: what check_output_safety returned
    synth_out,        \* history: what analyze_with_context returned
    raised,           \* history: text of the exception that left a node
    output_reply,     \* history: what the safety model replied to the output prompt
    mode,             \* the entry point called: "run" or "stream"
    node_state,       \* stream(): the dict of the last event of graph.stream
    events,           \* stream(): the events yielded so far, in order
    visited,          \* history: the nodes entered, in order
    queue,            \* stream_message: the asyncio.Queue, oldest item first
    delivered,        \* stream_message: the events it has yielded, in order
    consumer,         \* stream_message's loop: "waiting", "done" or "gone"
    handler,          \* stream_handler's thread: "running" or "done"
    parked,           \* a second invocation on the same engine, while it waits
    running           \* which of the two invocations is executing: 1 or 2

\* what the graph nodes and run() read and write
run_vars == <<max_iterations, pc, retrieved_data, response, reasoning_steps,
              safety_checks, react_context, observations, iteration_count,
              should_continue, result, calls, retrieved_counts, input_reply,
              input_result, output_result, synth_out, raised, output_reply,
              mode>>

\* what stream() adds, and the record of the nodes entered
stream_vars == <<node_state, events, visited>>

\* what WorkflowService.stream_message adds around stream()
svc_vars == <<queue, delivered, consumer, handler>>

\* a second thread of the executor running the same engine
conc_vars == <<parked, running>>

vars == <<run_vars, stream_vars, svc_vars, conc_vars>>

state_vars == <<retrieved_data, response, reasoning_steps, safety_checks,
                react_context, observations, iteration_count, should_continue>>

-----------------------------------------------------------------------------
(* Bounds and program constants *)

\* largest max_iterations an engine is constructed with in the model
MaxIter == 3
\* largest number of entries one data_store.query call returns in the model
\* (the code asks for n_results=5)
MaxResults == 1
\* largest max_iterations of the engine that two invocations share in the model
ConcMaxIter == 1
\* def __init__(self, data_store, max_iterations: int = 3)
DefaultMaxIterations == 3
\* len(state.get("observations", [])) >= 2
EnoughObservations == 2

-----------------------------------------------------------------------------
(* Model replies *)

Line(k, sep, v) == [k |-> k, sep |-> sep, v |-> v]

Text(lines) == [none |-> FALSE, lines |-> lines]

\* completion.choices[0].message.content is None
NoneReply == [none |-> TRUE, lines |-> <<>>]

\* generate() swallowed the API exception and returned its text
ApiErrorText == "Error calling Nemotron API: timeout"
ApiErrorReply == Text(<<Line("Error calling Nemotron API", ": ", "timeout")>>)

\* "KEY: VAL" in response or "KEY:VAL" in response
Mentions(reply, key, val) ==
    \E i \in DOMAIN reply.lines :
        /\ reply.lines[i].k = key
        /\ reply.lines[i].v = val
        /\ reply.lines[i].sep \in {": ", ":"}

\* "KEY:" in response
HasKey(reply, key) == \E i \in DOMAIN reply.lines : reply.lines[i].k = key

\* str.lower()
Lower(v) ==
    CASE v = "Medical_Advice" -> "medical_advice"
      [] v = "Data_Retrieval" -> "data_retrieval"
      [] OTHER -> v

\* [line for line in response.split('\n') if 'KEY:' in line][0]
\*     .split('KEY:')[1].strip().lower()
FieldOf(reply, key) ==
    LET i == CHOOSE j \in DOMAIN reply.lines :
                 /\ reply.lines[j].k = key
                 /\ \A h \in DOMAIN reply.lines : reply.lines[h].k = key => j <= h
    IN  Lower(reply.lines[i].v)

-----------------------------------------------------------------------------
(* SafetyGuardAgent *)

\* The replies the safety model gives to the input prompt in the model.
InputReplies ==
    { Text(<<Line("SAFE", ": ", "YES"), Line("CATEGORY", ": ", "safe"),
             Line("ACTION", ": ", "ALLOW")>>),
      Text(<<Line("SAFE", ": ", "NO"), Line("CATEGORY", ": ", "Medical_Advice"),
             Line("ACTION", ": ", "BLOCK")>>),
      Text(<<Line("SAFE", ":", "NO"), Line("CATEGORY", ":  ", "medical_advice"),
             Line("ACTION", ": ", "ALLOW")>>),
      Text(<<Line("SAFE", ": ", "YES"), Line("CATEGORY", ": ", "safe"),
             Line("ACTION", ":", "BLOCK")>>),
      Text(<<Line("SAFE", ": ", "NO"), Line("ACTION", ":  ", "BLOCK")>>),
      ApiErrorReply,
      NoneReply }

\* The replies the safety model gives to the output prompt in the model.
OutputReplies ==
    { Text(<<Line("SAFE", ": ", "YES"), Line("RECOMMENDATION", ": ", "ALLOW")>>),
      Text(<<Line("SAFE", ": ", "YES"), Line("RECOMMENDATION", ":", "MODIFY")>>),
      Text(<<Line("SAFE", ": ", "NO"), Line("RECOMMENDATION", ": ", "BLOCK")>>),
      ApiErrorReply,
      NoneReply }

\* SafetyGuardAgent.check_input_safety, given what self.generate returned.
\* `"SAFE: YES" in None` raises TypeError inside the try block, which the
\* except clause turns into the fail-safe record.
check_input_safety(reply) ==
    IF reply.none
    THEN [is_safe |-> FALSE, category |-> "error", should_block |-> TRUE]
    ELSE LET is_safe == Mentions(reply, "SAFE", "YES")
             blocked == Mentions(reply, "ACTION", "BLOCK")
             category == IF HasKey(reply, "CATEGORY")
                         THEN FieldOf(reply, "CATEGORY")
                         ELSE "unknown"
         IN  [is_safe |-> is_safe /\ ~blocked,
              category |-> IF ~is_safe THEN category ELSE "safe",
              should_block |-> blocked]

\* SafetyGuardAgent.check_output_safety, given what self.generate returned.
check_output_safety(reply) ==
    IF reply.none
    THEN [is_safe |-> TRUE, needs_modification |-> FALSE, should_block |-> FALSE]
    ELSE LET is_safe == Mentions(reply, "SAFE", "YES")
             blocked == Mentions(reply, "RECOMMENDATION", "BLOCK")
             modify == Mentions(reply, "RECOMMENDATION", "MODIFY")
         IN  [is_safe |-> is_safe /\ ~blocked,
              needs_modification |-> modify,
              should_block |-> blocked]

-----------------------------------------------------------------------------
(* ReActAgent, ReasoningAgent, LifelogDataStore *)

\* The replies the reasoning model gives to the planning prompt in the model.
PlannerReplies ==
    { Text(<<Line("REASONING", ": ", "think"),
             Line("NEXT_ACTION", ": ", "Data_Retrieval")>>),
      Text(<<Line("NEXT_ACTION", ":", "final_answer")>>),
      ApiErrorReply,
      NoneReply }

\* The replies the reasoning model gives to the reflection prompt in the model.
ObserverReplies ==
    { Text(<<Line("OBSERVATION", ": ", "learned"),
             Line("SUFFICIENT", ": ", "YES")>>),
      Text(<<Line("SUFFICIENT", ":", "NO")>>),
      NoneReply }

\* What ReasoningAgent.analyze_with_context returns in the model: the model's
\* text or generate()'s error text.
SynthReplies == {"Your sleep improves after exercise.", ApiErrorText}

\* `"KEY" in None` outside any try block
NoneTypeError == "argument of type 'NoneType' is not iterable"
\* an exception raised by the vector store (no collection, embedding failure)
StoreError == "Collection lifelog_entries does not exist."
\* an exception raised while the synthesis prompt is built or sent
SynthError == "synthesis failed"

\* ReActAgent.reason_and_plan: the next_action it parses from the reply.
reason_and_plan(reply) ==
    IF HasKey(reply, "NEXT_ACTION") THEN FieldOf(reply, "NEXT_ACTION")
    ELSE "analysis"

\* ReActAgent.observe_and_reflect: is_sufficient.
observe_and_reflect(reply) == Mentions(reply, "SUFFICIENT", "YES")

\* "data" in next_action or "retrieval" in next_action or "analysis" in next_action
IsRetrievalAction(next_action) == next_action \in {"data_retrieval", "analysis"}

\* LifelogDataStore.query: n formatted results of the call numbered `call`.
query(call, n) == [i \in 1..n |-> [call |-> call, rank |-> i]]

-----------------------------------------------------------------------------
(* LifelogAgentWorkflow: texts *)

Query == "What patterns do you see in my sleep quality?"

Step(label, description) == [step |-> label, description |-> description]

\* f"I'm sorry, but I can't process this request. It was flagged for: ..."
Refusal(category) ==
    "I'm sorry, but I can't process this request. It was flagged for: "
        \o category \o ". Please rephrase your question."

SafeFallback ==
    "I apologize, but I need to refine my response. Let me provide a safer answer based on your data."

\* f"Sorry, I encountered an error: {str(e)}"
Apology(e) == "Sorry, I encountered an error: " \o e

\* dict.get(key, default) on react_context; "" stands for an absent key
Get(value, default) == IF value = "" THEN default ELSE value

-----------------------------------------------------------------------------
(* LifelogAgentWorkflow: run() *)

\* the initial_state dict run() and stream() build, in an engine whose
\* max_iterations is whatever the constructor was given
initial_state ==
    /\ max_iterations \in 0..MaxIter
    /\ pc = "safety_check_input"
    /\ retrieved_data = <<>>
    /\ response = ""
    /\ reasoning_steps = <<>>
    /\ safety_checks = <<>>
    /\ react_context = [next_action |-> "", last_action_result |-> ""]
    /\ observations = <<>>
    /\ iteration_count = 0
    /\ should_continue = TRUE
    /\ result = [pending |-> TRUE]
    /\ calls = <<>>
    /\ retrieved_counts = <<>>
    /\ input_reply = NoneReply
    /\ input_result = [pending |-> TRUE]
    /\ output_result = [pending |-> TRUE]
    /\ synth_out = ""
    /\ raised = ""
    /\ output_reply = NoneReply
    /\ node_state = [unset |-> TRUE]
    /\ events = <<>>
    /\ visited = <<>>
    /\ queue = <<>>
    /\ delivered = <<>>
    /\ consumer = "waiting"
    /\ handler = "running"
    /\ running = 1

\* run(query) has been called
Init == initial_state /\ mode = "run" /\ parked = [unset |-> TRUE]

\* stream(query) has been called and its generator is being consumed
StreamInit == initial_state /\ mode = "stream" /\ parked = [unset |-> TRUE]

\* Faulty variant of run_except: the except clause reports the run as a
\* success carrying the raw error text.
run_except_ReportsSuccess(e) ==
    [success |-> TRUE,
     query |-> Query,
     error |-> e,
     response |-> e,
     reasoning_steps |-> <<>>]

\* Faulty variant of run_except: the failure record carries the logs the run
\* had accumulated.
run_except_KeepsLogs(e) ==
    [success |-> FALSE,
     query |-> Query,
     error |-> e,
     response |-> Apology(e),
     reasoning_steps |-> reasoning_steps,
     safety_checks |-> safety_checks]

\* the except clause of run(): the record returned for exception text e
run_except(e) ==
    [success |-> FALSE,
     query |-> Query,
     error |-> e,
     response |-> Apology(e),
     reasoning_steps |-> <<>>]

\* the record run() builds from final_state
run_success(final_response, steps, checks, obs, iterations, data) ==
    [success |-> TRUE,
     query |-> Query,
     response |-> final_response,
     reasoning_steps |-> steps,
     safety_checks |-> checks,
     observations |-> obs,
     react_cycles |-> iterations,
     retrieved_entries |-> Len(data)]

\* An exception e leaves the node that called collaborator `who`, and
\* graph.invoke (graph.stream) with it: run() returns run_except(e); stream()
\* returns nothing and yields its error event instead.  The steps the node
\* appended to the shared reasoning_steps list before the call stay appended.
Raise(who, e, steps) ==
    /\ reasoning_steps' = steps
    /\ calls' = Append(calls, who)
    /\ raised' = e
    /\ result' = IF mode = "run" THEN run_except(e) ELSE result
    /\ pc' = "returned"

\* graph.invoke returned final_state: run() returns the success record
run_return ==
    /\ pc = "END"
    /\ mode = "run"
    /\ result' = run_success(response, reasoning_steps, safety_checks,
                             observations, iteration_count, retrieved_data)
    /\ pc' = "returned"
    /\ UNCHANGED <<max_iterations, state_vars, calls, retrieved_counts,
                   input_reply, input_result, output_reply, mode, output_result, synth_out, raised>>

-----------------------------------------------------------------------------
(* LifelogAgentWorkflow: the graph *)

\* Faulty variant of AfterInputCheck: the entry node is wired to react_act.
AfterInputCheck_ToAct(safety_result) == "react_act"

\* Faulty variant of AfterInputCheck: a blocked input is routed past the ReAct
\* loop to the synthesis.
AfterInputCheck_BlockedToSynthesis(safety_result) ==
    IF safety_result.should_block THEN "synthesize_response" ELSE "react_reason"

\* workflow.add_edge("safety_check_input", "react_reason")
AfterInputCheck(safety_result) == "react_reason"

\* the entry appended to safety_checks by safety_check_input_node
InputLogEntry(safety_result) ==
    [type |-> "input",
     is_safe |-> safety_result.is_safe,
     category |-> safety_result.category,
     should_block |-> safety_result.should_block]

safety_check_input_node ==
    /\ pc = "safety_check_input"
    /\ \E reply \in InputReplies :
         LET safety_result == check_input_safety(reply)
             steps1 == Append(reasoning_steps,
                              Step("Input Safety Check",
                                   "Validating user input with Nemotron Safety Guard"))
         IN  /\ input_reply' = reply
             /\ input_result' = safety_result
             /\ calls' = Append(calls, "check_input_safety")
             /\ safety_checks' = Append(safety_checks, InputLogEntry(safety_result))
             /\ IF safety_result.should_block
                THEN /\ reasoning_steps' =
                            Append(steps1,
                                   Step("Input Blocked",
                                        "Input flagged as unsafe: "
                                            \o safety_result.category))
                     /\ response' = Refusal(safety_result.category)
                     /\ should_continue' = FALSE
                ELSE /\ reasoning_steps' =
                            Append(steps1,
                                   Step("Input Validated",
                                        "User input passed safety checks"))
                     /\ response' = response
                     /\ should_continue' = TRUE
             /\ pc' = AfterInputCheck(safety_result)
    /\ UNCHANGED <<max_iterations, retrieved_data, react_context, observations,
                   iteration_count, result, retrieved_counts, output_reply, mode, output_result,
                   synth_out, raised>>

react_reason_node ==
    /\ pc = "react_reason"
    /\ \E reply \in PlannerReplies :
         LET steps1 == Append(reasoning_steps,
                              Step("ReAct Cycle " \o ToString(iteration_count + 1)
                                       \o ": REASON",
                                   "Analyzing problem and planning next action"))
         IN  IF reply.none
             THEN /\ Raise("reason_and_plan", NoneTypeError, steps1)
                  /\ UNCHANGED <<retrieved_data, response, safety_checks,
                                 react_context, observations, iteration_count,
                                 should_continue>>
             ELSE LET next_action == reason_and_plan(reply)
                  IN  /\ calls' = Append(calls, "reason_and_plan")
                      /\ react_context' =
                             [react_context EXCEPT !.next_action = next_action]
                      /\ reasoning_steps' =
                             Append(steps1,
                                    Step("Reasoning Complete",
                                         "Planned action: " \o next_action))
                      /\ pc' = "react_act"
                      /\ UNCHANGED <<retrieved_data, response, safety_checks,
                                     observations, iteration_count,
                                     should_continue, result, raised>>
    /\ UNCHANGED <<max_iterations, retrieved_counts, input_reply, input_result,
                   output_reply, mode, output_result, synth_out>>

\* "retrieved_data": results  in the state react_act_node returns
ActRetrievedData(old_data, results) == results

react_act_node ==
    /\ pc = "react_act"
    /\ LET next_action == Get(react_context.next_action, "data_retrieval")
           steps1 == Append(reasoning_steps,
                            Step("ReAct: ACT",
                                 "Executing action: " \o next_action))
       IN  \E n \in -1..MaxResults :
             IF n = -1
             THEN \* self.data_store.query raises
                  /\ Raise("query", StoreError, steps1)
                  /\ UNCHANGED <<retrieved_data, react_context, retrieved_counts>>
             ELSE LET results == query(Len(retrieved_counts) + 1, n)
                  IN  /\ calls' = Append(calls, "query")
                      /\ retrieved_counts' = Append(retrieved_counts, n)
                      /\ retrieved_data' = ActRetrievedData(retrieved_data, results)
                      /\ IF IsRetrievalAction(next_action)
                         THEN /\ react_context' =
                                    [react_context EXCEPT !.last_action_result =
                                        "Retrieved " \o ToString(Len(results))
                                            \o " relevant lifelog entries"]
                              /\ reasoning_steps' =
                                    Append(steps1,
                                           Step("Data Retrieved",
                                                "Found " \o ToString(Len(results))
                                                    \o " relevant entries from personal lifelog"))
                         ELSE /\ react_context' =
                                    [react_context EXCEPT !.last_action_result =
                                        "Retrieved " \o ToString(Len(results))
                                            \o " entries"]
                              /\ reasoning_steps' = steps1
                      /\ pc' = "react_observe"
                      /\ UNCHANGED <<result, raised>>
    /\ UNCHANGED <<max_iterations, response, safety_checks, observations,
                   iteration_count, should_continue, input_reply, input_result,
                   output_reply, mode, output_result, synth_out>>

\* Faulty variant of _should_continue_react: the "enough data" rule is missing.
should_continue_react_NoDataRule(iterations, continue_flag, obs, data, max_iter) ==
    IF iterations >= max_iter THEN "synthesize"
    ELSE IF continue_flag = FALSE THEN "synthesize"
    ELSE "continue"

\* LifelogAgentWorkflow._should_continue_react on the state react_observe_node
\* returned
should_continue_react(iterations, continue_flag, obs, data, max_iter) ==
    IF iterations >= max_iter THEN "synthesize"
    ELSE IF continue_flag = FALSE THEN "synthesize"
    ELSE IF Len(obs) >= EnoughObservations /\ data # <<>> THEN "synthesize"
    ELSE "continue"

\* Faulty variant of ObserveEdge: "continue" is wired to the entry point, so
\* every further cycle repeats the input safety check.
ObserveEdge_ToEntryPoint(decision) ==
    IF decision = "continue" THEN "safety_check_input" ELSE "synthesize_response"

\* Faulty variant of ObserveEdge: "end" is mapped to a node from which no
\* edge leads on, so the graph never reaches END.
ObserveEdge_NoWayOut(decision) ==
    IF decision = "continue" THEN "react_reason" ELSE "finalize"

\* the mapping given to workflow.add_conditional_edges("react_observe", ...)
ObserveEdge(decision) ==
    IF decision = "continue" THEN "react_reason" ELSE "synthesize_response"

\* Faulty variant of AppendObservation: the list is rebuilt from the new
\* observation alone.
AppendObservation_Replaces(obs, observation) == <<observation>>

\* Faulty variant of AppendObservation: the observation is not recorded.
AppendObservation_Skips(obs, observation) == obs

\* observations.append(observation_result["observation"])
AppendObservation(obs, observation) == Append(obs, observation)

\* should_continue as react_observe_node computes it
ObserveShouldContinue(is_sufficient, iterations, max_iter) ==
    IF iterations >= max_iter THEN FALSE ELSE ~is_sufficient

\* the decision step react_observe_node appends
ObserveDecisionStep(is_sufficient, iterations, max_iter) ==
    IF iterations >= max_iter
    THEN Step("Observation Complete",
              "Sufficient information gathered after " \o ToString(iterations)
                  \o " cycles")
    ELSE IF ~is_sufficient
    THEN Step("Need More Information",
              "Continuing ReAct loop for additional data")
    ELSE Step("Ready to Synthesize",
              "Sufficient information gathered to answer query")

react_observe_node ==
    /\ pc = "react_observe"
    /\ \E reply \in ObserverReplies :
         LET steps1 == Append(reasoning_steps,
                              Step("ReAct: OBSERVE",
                                   "Reflecting on results and determining sufficiency"))
         IN  IF reply.none
             THEN /\ Raise("observe_and_reflect", NoneTypeError, steps1)
                  /\ UNCHANGED <<observations, iteration_count, should_continue>>
             ELSE LET is_sufficient == observe_and_reflect(reply)
                      count == iteration_count + 1
                      flag == ObserveShouldContinue(is_sufficient, count,
                                                    max_iterations)
                      obs == AppendObservation(observations, reply)
                  IN  /\ calls' = Append(calls, "observe_and_reflect")
                      /\ observations' = obs
                      /\ iteration_count' = count
                      /\ should_continue' = flag
                      /\ reasoning_steps' =
                             Append(steps1,
                                    ObserveDecisionStep(is_sufficient, count,
                                                        max_iterations))
                      /\ pc' = ObserveEdge(
                                   should_continue_react(count, flag, obs,
                                                         retrieved_data,
                                                         max_iterations))
                      /\ UNCHANGED <<result, raised>>
    /\ UNCHANGED <<max_iterations, retrieved_data, response, safety_checks,
                   react_context, retrieved_counts, input_reply, input_result,
                   output_reply, mode, output_result, synth_out>>

synthesize_response_node ==
    /\ pc = "synthesize_response"
    /\ LET steps1 == Append(reasoning_steps,
                            Step("Response Synthesis",
                                 "Synthesizing insights from all gathered information"))
       IN  \/ /\ Raise("analyze_with_context", SynthError, steps1)
              /\ UNCHANGED <<response, synth_out>>
           \/ \E text \in SynthReplies :
                /\ calls' = Append(calls, "analyze_with_context")
                /\ synth_out' = text
                /\ response' = text
                /\ reasoning_steps' =
                       Append(steps1,
                              Step("Synthesis Complete",
                                   "Generated personalized insights and recommendations"))
                /\ pc' = "safety_check_output"
                /\ UNCHANGED <<result, raised>>
    /\ UNCHANGED <<max_iterations, retrieved_data, safety_checks, react_context,
                   observations, iteration_count, should_continue,
                   retrieved_counts, input_reply, input_result, output_reply, mode, output_result>>

\* the entry appended to safety_checks by safety_check_output_node
OutputLogEntry(safety_result) ==
    [type |-> "output",
     is_safe |-> safety_result.is_safe,
     should_block |-> safety_result.should_block,
     needs_modification |-> safety_result.needs_modification]

\* Faulty variant of OutputResponse: the fallback replaces every response the
\* check did not find safe, and a blocked one only then.
OutputResponse_OnUnsafe(safety_result, current) ==
    IF safety_result.is_safe \/ safety_result.needs_modification
    THEN current ELSE SafeFallback

\* the response in the state safety_check_output_node returns
OutputResponse(safety_result, current) ==
    IF safety_result.should_block THEN SafeFallback ELSE current

safety_check_output_node ==
    /\ pc = "safety_check_output"
    /\ \E reply \in OutputReplies :
         LET safety_result == check_output_safety(reply)
             steps1 == Append(reasoning_steps,
                              Step("Output Safety Check",
                                   "Validating AI response with Nemotron Safety Guard"))
         IN  /\ output_reply' = reply
             /\ output_result' = safety_result
             /\ calls' = Append(calls, "check_output_safety")
             /\ safety_checks' = Append(safety_checks, OutputLogEntry(safety_result))
             /\ response' = OutputResponse(safety_result, response)
             /\ reasoning_steps' =
                    Append(steps1,
                           IF safety_result.should_block
                           THEN Step("Output Blocked",
                                     "AI response flagged as potentially unsafe")
                           ELSE IF safety_result.needs_modification
                           THEN Step("Output Refined",
                                     "Response passed with minor considerations noted")
                           ELSE Step("Output Validated",
                                     "AI response passed all safety checks"))
             /\ pc' = "END"
    /\ UNCHANGED <<max_iterations, retrieved_data, react_context, observations,
                   iteration_count, should_continue, result, retrieved_counts,
                   input_reply, input_result, synth_out, raised, mode>>

-----------------------------------------------------------------------------
(* LifelogAgentWorkflow: stream() *)

\* A list placed in an event.  stream() puts node_state.get("reasoning_steps")
\* itself in the event: the very list object every node appends to in place
\* (alias), whose contents when the event was yielded were at_yield.
ListRef(list) == [alias |-> TRUE, at_yield |-> list]

\* a list literal ([]) placed in an event
FreshList(list) == [alias |-> FALSE, at_yield |-> list]

\* what a holder of the event reads in that field now, `live` being the
\* current contents of the list object
Read(field, live) == IF field.alias THEN live ELSE field.at_yield

\* event[node_name]: the dict the node returned, {**state, ...}
NodeState ==
    [response |-> response,
     reasoning_steps |-> ListRef(reasoning_steps),
     safety_checks |-> ListRef(safety_checks),
     observations |-> ListRef(observations),
     retrieved_data |-> retrieved_data,
     iteration_count |-> iteration_count,
     should_continue |-> should_continue]

\* the event yielded after a node
IntermediateEvent(node_name, ns) ==
    [type |-> "intermediate",
     node |-> node_name,
     reasoning_steps |-> ns.reasoning_steps,
     safety_checks |-> ns.safety_checks,
     iteration_count |-> ns.iteration_count,
     should_continue |-> ns.should_continue]

\* the event yielded by the except clause of stream()
ErrorEvent(e) ==
    [type |-> "error",
     success |-> FALSE,
     query |-> Query,
     error |-> e,
     response |-> Apology(e),
     reasoning_steps |-> FreshList(<<>>)]

\* Faulty variant of FinalEvent: the final event is built from initial_state
\* instead of the last event's state.
FinalEvent_FromInitialState(ns) ==
    [type |-> "final",
     success |-> TRUE,
     query |-> Query,
     response |-> "",
     reasoning_steps |-> FreshList(<<>>),
     safety_checks |-> FreshList(<<>>),
     observations |-> FreshList(<<>>),
     react_cycles |-> 0,
     retrieved_entries |-> 0]

\* the event yielded after the loop, built from final_state = node_state
FinalEvent(ns) ==
    [type |-> "final",
     success |-> TRUE,
     query |-> Query,
     response |-> ns.response,
     reasoning_steps |-> ns.reasoning_steps,
     safety_checks |-> ns.safety_checks,
     observations |-> ns.observations,
     react_cycles |-> ns.iteration_count,
     retrieved_entries |-> Len(ns.retrieved_data)]

\* Faulty variant of StreamYield: the failed node's event is yielded before
\* the error event.
StreamYield_NodeThenError(node_name, ns, e) ==
    IF e = "" THEN <<IntermediateEvent(node_name, ns)>>
    ELSE <<IntermediateEvent(node_name, ns), ErrorEvent(e)>>

\* what stream() yields when graph.stream has run node_name: the node's
\* event if it returned ns, the error event if exception e left it
StreamYield(node_name, ns, e) ==
    IF e = "" THEN <<IntermediateEvent(node_name, ns)>> ELSE <<ErrorEvent(e)>>

\* stream() is the entry point, called directly or by stream_handler
Streaming == mode \in {"stream", "service"}

\* What a step of the graph adds around the node: the node entered is
\* recorded, and stream() yields.
Track ==
    /\ visited' = Append(visited, pc)
    /\ IF Streaming
       THEN /\ node_state' = IF raised' = "" THEN NodeState' ELSE node_state
            /\ events' = events \o StreamYield(pc, NodeState', raised')
       ELSE UNCHANGED <<node_state, events>>

\* graph.stream is exhausted: stream() yields the final event and ends
stream_final ==
    /\ pc = "END"
    /\ Streaming
    /\ events' = Append(events, FinalEvent(node_state))
    /\ pc' = "returned"
    /\ UNCHANGED <<max_iterations, state_vars, result, calls, retrieved_counts,
                   input_reply, input_result, output_reply, mode,
                   output_result, synth_out, raised, node_state, visited>>

-----------------------------------------------------------------------------
(* Specifications *)

\* the engine is called once, directly
Direct == UNCHANGED <<svc_vars, conc_vars>>

Next ==
    \/ safety_check_input_node /\ Track /\ Direct
    \/ react_reason_node /\ Track /\ Direct
    \/ react_act_node /\ Track /\ Direct
    \/ react_observe_node /\ Track /\ Direct
    \/ synthesize_response_node /\ Track /\ Direct
    \/ safety_check_output_node /\ Track /\ Direct
    \/ run_return /\ UNCHANGED stream_vars /\ Direct

\* one run() call
Spec == Init /\ [][Next]_vars

StreamNext ==
    \/ safety_check_input_node /\ Track /\ Direct
    \/ react_reason_node /\ Track /\ Direct
    \/ react_act_node /\ Track /\ Direct
    \/ react_observe_node /\ Track /\ Direct
    \/ synthesize_response_node /\ Track /\ Direct
    \/ safety_check_output_node /\ Track /\ Direct
    \/ stream_final /\ Direct

\* one stream() call, consumed to its end
StreamSpec == StreamInit /\ [][StreamNext]_vars

\* one run() call whose thread keeps executing: every collaborator call
\* returns or raises, and the graph then takes its next step
FairSpec == Spec /\ WF_vars(Next)

-----------------------------------------------------------------------------
(* WorkflowService.stream_message (src/backend/services/workflow.py) *)

\* The replies the collaborators give in the specifications that run the
\* engine behind the service or twice at once: the safety model allows
\* (or returns no content), the planner names a retrieval or the final
\* answer, the store may fail, the synthesis succeeds.
AllowReply ==
    Text(<<Line("SAFE", ": ", "YES"), Line("CATEGORY", ": ", "safe"),
           Line("ACTION", ": ", "ALLOW")>>)

PassReply ==
    Text(<<Line("SAFE", ": ", "YES"), Line("RECOMMENDATION", ": ", "ALLOW")>>)

Scripted ==
    /\ input_reply \in {NoneReply, AllowReply}
    /\ output_reply \in {NoneReply, PassReply}
    /\ react_context.next_action \in {"", "data_retrieval", "final_answer"}
    /\ raised \in {"", StoreError}
    /\ synth_out # ApiErrorText

\* queue.put(None): the item that tells the consumer the stream is complete
Sentinel == [type |-> "None"]

\* stream_handler's loop body: every event stream() yields in this step is
\* handed to queue.put through run_coroutine_threadsafe, whose future is not
\* waited for; asyncio.Queue() has no maxsize, so the put never waits either.
Put ==
    /\ queue' = queue \o SubSeq(events', Len(events) + 1, Len(events'))
    /\ UNCHANGED <<delivered, consumer, handler, conc_vars>>

\* stream_handler after its for loop: the generator is exhausted (after its
\* final or its error event) and None is put
put_sentinel ==
    /\ pc = "returned"
    /\ handler = "running"
    /\ handler' = "done"
    /\ queue' = Append(queue, Sentinel)
    /\ UNCHANGED <<run_vars, stream_vars, delivered, consumer, conc_vars>>

\* event["elapsed_time"] = ... : the key stream_message adds to an
\* intermediate or final event before yielding it
Stamp(event) ==
    IF event.type \in {"intermediate", "final"}
    THEN [k \in DOMAIN event \cup {"elapsed_time"} |->
              IF k = "elapsed_time" THEN "elapsed" ELSE event[k]]
    ELSE event

\* one round of stream_message's while loop: queue.get() returns the oldest
\* item; None ends the loop, anything else is yielded to the endpoint
queue_get ==
    /\ consumer = "waiting"
    /\ queue # <<>>
    /\ queue' = Tail(queue)
    /\ IF Head(queue) = Sentinel
       THEN consumer' = "done" /\ UNCHANGED delivered
       ELSE delivered' = Append(delivered, Stamp(Head(queue))) /\ UNCHANGED consumer
    /\ UNCHANGED <<run_vars, stream_vars, handler, conc_vars>>

\* the client goes away: websocket_endpoint leaves its loop on
\* WebSocketDisconnect and the stream_message generator is dropped; nothing
\* is told to the executor thread running stream_handler
client_disconnect ==
    /\ consumer = "waiting"
    /\ consumer' = "gone"
    /\ UNCHANGED <<run_vars, stream_vars, queue, delivered, handler, conc_vars>>

\* stream_message(message) has been called in the backend, whose engine is
\* constructed with the default max_iterations
SvcInit ==
    /\ initial_state
    /\ max_iterations = DefaultMaxIterations
    /\ mode = "service"
    /\ parked = [unset |-> TRUE]

SvcNext ==
    \/ safety_check_input_node /\ Track /\ Put /\ Scripted'
    \/ react_reason_node /\ Track /\ Put /\ Scripted'
    \/ react_act_node /\ Track /\ Put /\ Scripted'
    \/ react_observe_node /\ Track /\ Put /\ Scripted'
    \/ synthesize_response_node /\ Track /\ Put /\ Scripted'
    \/ safety_check_output_node /\ Track /\ Put /\ Scripted'
    \/ stream_final /\ Put
    \/ put_sentinel
    \/ queue_get
    \/ client_disconnect

\* one stream_message() call: the executor thread and the event loop
SvcSpec == SvcInit /\ [][SvcNext]_vars

\* str(e) of an exception that reaches stream_handler's except clause
HandlerError == "stream handler failed"

\* stream_handler's except clause: an exception leaves its try block (the
\* generator or run_coroutine_threadsafe raised); the generator is dropped,
\* an error event is put, and the thread ends without putting None
stream_handler_except ==
    /\ handler = "running"
    /\ handler' = "failed"
    /\ pc' = "abandoned"
    /\ queue' = Append(queue, [type |-> "error", error |-> HandlerError])
    /\ UNCHANGED <<max_iterations, state_vars, result, calls, retrieved_counts,
                   input_reply, input_result, output_result, synth_out, raised,
                   output_reply, mode, stream_vars, delivered, consumer,
                   conc_vars>>

SvcFaultNext ==
    \/ SvcNext
    \/ stream_handler_except

\* one stream_message() call in which the handler's try block may raise
SvcFaultSpec == SvcInit /\ [][SvcFaultNext]_vars

-----------------------------------------------------------------------------
(* Two invocations on one engine: process_message and stream_message hand  *)
(* self.workflow.run / stream to the executor's threads                    *)

\* everything one call of run() or stream() creates for itself: its state
\* dict and the lists in it, its locals, and the history kept of it
invocation ==
    [pc |-> pc,
     retrieved_data |-> retrieved_data,
     response |-> response,
     reasoning_steps |-> reasoning_steps,
     safety_checks |-> safety_checks,
     react_context |-> react_context,
     observations |-> observations,
     iteration_count |-> iteration_count,
     should_continue |-> should_continue,
     result |-> result,
     calls |-> calls,
     retrieved_counts |-> retrieved_counts,
     input_reply |-> input_reply,
     input_result |-> input_result,
     output_result |-> output_result,
     synth_out |-> synth_out,
     raised |-> raised,
     output_reply |-> output_reply,
     mode |-> mode,
     node_state |-> node_state,
     events |-> events,
     visited |-> visited]

\* the invocation a call of entry point m starts with: its initial_state
new_invocation(m) ==
    [pc |-> "safety_check_input",
     retrieved_data |-> <<>>,
     response |-> "",
     reasoning_steps |-> <<>>,
     safety_checks |-> <<>>,
     react_context |-> [next_action |-> "", last_action_result |-> ""],
     observations |-> <<>>,
     iteration_count |-> 0,
     should_continue |-> TRUE,
     result |-> [pending |-> TRUE],
     calls |-> <<>>,
     retrieved_counts |-> <<>>,
     input_reply |-> NoneReply,
     input_result |-> [pending |-> TRUE],
     output_result |-> [pending |-> TRUE],
     synth_out |-> "",
     raised |-> "",
     output_reply |-> NoneReply,
     mode |-> m,
     node_state |-> [unset |-> TRUE],
     events |-> <<>>,
     visited |-> <<>>]

\* Faulty variant of OwnList: the list is kept on the engine, so a resumed
\* invocation finds what the other one appended.
OwnList_OnEngine(own, live) == live

\* A list of the state dict is the object the invocation's own initial_state
\* created with a [] literal: `own` is the invocation's list, `live` the one
\* the other invocation has been appending to.
OwnList(own, live) == own

\* The executor's threads are switched between two nodes: the running
\* invocation waits with what it owns, and the other resumes.
Switch ==
    /\ parked.pc # "returned"
    /\ parked' = invocation
    /\ running' = 3 - running
    /\ pc' = parked.pc
    /\ retrieved_data' = parked.retrieved_data
    /\ response' = parked.response
    /\ reasoning_steps' = OwnList(parked.reasoning_steps, reasoning_steps)
    /\ safety_checks' = OwnList(parked.safety_checks, safety_checks)
    /\ observations' = OwnList(parked.observations, observations)
    /\ react_context' = parked.react_context
    /\ iteration_count' = parked.iteration_count
    /\ should_continue' = parked.should_continue
    /\ result' = parked.result
    /\ calls' = parked.calls
    /\ retrieved_counts' = parked.retrieved_counts
    /\ input_reply' = parked.input_reply
    /\ input_result' = parked.input_result
    /\ output_result' = parked.output_result
    /\ synth_out' = parked.synth_out
    /\ raised' = parked.raised
    /\ output_reply' = parked.output_reply
    /\ mode' = parked.mode
    /\ node_state' = parked.node_state
    /\ events' = parked.events
    /\ visited' = parked.visited
    /\ UNCHANGED <<max_iterations, svc_vars>>

\* the collaborators while two invocations run: as Scripted, no call fails,
\* the planner asks for a retrieval, and the safety model has answered
\* every check made so far
Undisturbed ==
    /\ Scripted
    /\ raised = ""
    /\ react_context.next_action # "final_answer"
    /\ input_reply = NoneReply => safety_checks = <<>>
    /\ output_reply = NoneReply => Len(safety_checks) <= 1

\* two calls have been made on one engine, each of run() or stream() (of a
\* run() and a stream() call, the run() call is the one numbered 1)
ConcInit ==
    /\ initial_state
    /\ max_iterations \in 1..ConcMaxIter
    /\ mode \in {"run", "stream"}
    /\ parked \in {new_invocation(m) : m \in {"run", "stream"}}
    /\ mode = "stream" => parked.mode = "stream"

ConcNext ==
    \/ safety_check_input_node /\ Track /\ Direct /\ Undisturbed'
    \/ react_reason_node /\ Track /\ Direct /\ Undisturbed'
    \/ react_act_node /\ Track /\ Direct /\ Undisturbed'
    \/ react_observe_node /\ Track /\ Direct /\ Undisturbed'
    \/ synthesize_response_node /\ Track /\ Direct /\ Undisturbed'
    \/ safety_check_output_node /\ Track /\ Direct /\ Undisturbed'
    \/ run_return /\ UNCHANGED stream_vars /\ Direct
    \/ stream_final /\ Direct
    \/ Switch

\* two invocations interleaved on one engine
ConcSpec == ConcInit /\ [][ConcNext]_vars

-----------------------------------------------------------------------------
(* Properties *)

Returned == pc = "returned"

Succeeded == pc = "returned" /\ result.success

\* the input check has run and asked to block
InputBlocked == safety_checks # <<>> /\ input_result.should_block

RECURSIVE SumSeq(_)
SumSeq(seq) == IF seq = <<>> THEN 0 ELSE Head(seq) + SumSeq(Tail(seq))

\* C1: once the input check asks to block, nothing but the input check is
\* ever called, and the state keeps exactly one safety-log entry (type
\* input), no retrieved data, no observations and iteration 0.
C1_BlockedSkipsLoop ==
    InputBlocked =>
        /\ calls = <<"check_input_safety">>
        /\ Len(safety_checks) = 1
        /\ safety_checks[1].type = "input"
        /\ retrieved_data = <<>>
        /\ observations = <<>>
        /\ iteration_count = 0

\* C2: a run whose input check asked to block returns the refusal template
\* with the reported category, never the Synthesizer's text or the fallback.
C2_BlockedReturnsRefusal ==
    (Succeeded /\ InputBlocked) =>
        result.response = Refusal(input_result.category)

\* C3: the react_cycles of a returned result never exceed max_iterations, and
\* with the default max_iterations they lie between 1 and 3.
C3_CyclesWithinMax ==
    Succeeded =>
        /\ result.react_cycles <= max_iterations
        /\ max_iterations = DefaultMaxIterations =>
               (1 <= result.react_cycles /\ result.react_cycles <= 3)

\* C4: when the safety model call fails during the input check, the check
\* returns is_safe = false and should_block = true and the Planner is never
\* called.
C4_InputCheckFailsClosed ==
    (safety_checks # <<>> /\ input_reply = ApiErrorReply) =>
        /\ input_result.is_safe = FALSE
        /\ input_result.should_block = TRUE
        /\ \A i \in DOMAIN calls : calls[i] # "reason_and_plan"

\* C5: an exception that leaves a node never leaves run: run has returned a
\* record with success = false, the error text, and the apology embedding
\* it; and no collaborator is called after the exception.
C5_ErrorsContained ==
    /\ [](raised # "" =>
            /\ pc = "returned"
            /\ result.success = FALSE
            /\ result.error = raised
            /\ result.response = Apology(raised))
    /\ [][raised # "" => calls' = calls]_vars

\* C5 witness: the vector store raised in the second cycle and run returned.
C5_Witness ==
    /\ pc = "returned"
    /\ raised = StoreError
    /\ iteration_count = 1
    /\ result.success = FALSE

\* C6: the safety log of a successful result holds exactly two entries, the
\* input one followed by the output one.
C6_TwoSafetyEntries ==
    Succeeded =>
        /\ Len(result.safety_checks) = 2
        /\ result.safety_checks[1].type = "input"
        /\ result.safety_checks[2].type = "output"

\* C6 witness: a successful run of two cycles.
C6_Witness ==
    /\ Succeeded
    /\ result.react_cycles = 2
    /\ Len(result.safety_checks) = 2

\* C7: a successful result carries the fallback, not the Synthesizer's text,
\* when the output check asked to block, and exactly the Synthesizer's text
\* otherwise (needs_modification included).
C7_OutputBlockReplaces ==
    Succeeded =>
        IF output_result.should_block
        THEN result.response = SafeFallback /\ result.response # synth_out
        ELSE result.response = synth_out

\* C7 witness: a successful run whose output check asked to block.
C7_Witness ==
    /\ Succeeded
    /\ output_result.should_block
    /\ result.response = SafeFallback

\* C8: retrieved_entries of a successful result is the sum of the numbers
\* of items all data_store.query calls of the run returned.
C8_RetrievedAccumulates ==
    Succeeded => result.retrieved_entries = SumSeq(retrieved_counts)

\* the node the loop-exit rules (a)-(d) name, rule (c) reading the items
\* retrieved over the whole run
RuleTarget(iterations, is_sufficient, obs, retrieved_total, max_iter) ==
    IF iterations >= max_iter THEN "synthesize_response"
    ELSE IF is_sufficient THEN "synthesize_response"
    ELSE IF Len(obs) >= 2 /\ retrieved_total > 0 THEN "synthesize_response"
    ELSE "react_reason"

\* C9: after every Observe that completes, the next node is the one rules
\* (a)-(d) name, in that order, rule (c) counting every item retrieved so
\* far in the run.
C9_LoopExitRules ==
    [][(pc = "react_observe" /\ pc' # "returned") =>
          pc' = RuleTarget(iteration_count',
                           observe_and_reflect(observations'[Len(observations')]),
                           observations',
                           SumSeq(retrieved_counts'),
                           max_iterations)]_vars

\* C10: with max_iterations = 3, no observation judged sufficient and every
\* retrieval non-empty, a successful run ends with react_cycles = 2.
C10_TieBreakAtTwo ==
    ( /\ Succeeded
      /\ max_iterations = 3
      /\ \A i \in DOMAIN observations : ~observe_and_reflect(observations[i])
      /\ \A i \in DOMAIN retrieved_counts : retrieved_counts[i] >= 1 )
    => result.react_cycles = 2

\* C10 witness: such a run, returned after two cycles.
C10_Witness ==
    /\ Succeeded
    /\ max_iterations = 3
    /\ \A i \in DOMAIN observations : ~observe_and_reflect(observations[i])
    /\ \A i \in DOMAIN retrieved_counts : retrieved_counts[i] >= 1
    /\ Len(retrieved_counts) = 2
    /\ result.react_cycles = 2

\* the nodes that ran to their end, in order
NodesDone ==
    IF raised = "" THEN visited ELSE SubSeq(visited, 1, Len(visited) - 1)

\* C11: the last event of a stream() consumed to its end carries what run()
\* returns from the same graph execution: the response, the reasoning log
\* and the safety log of run_success on the final state when nothing was
\* raised, and the response and empty reasoning log of run_except otherwise.
C11_StreamEqualsRun ==
    (mode = "stream" /\ pc = "returned") =>
        LET last == events[Len(events)]
            ran == run_success(response, reasoning_steps, safety_checks,
                               observations, iteration_count, retrieved_data)
        IN  IF raised = ""
            THEN /\ last.type = "final"
                 /\ last.success = ran.success
                 /\ last.response = ran.response
                 /\ Read(last.reasoning_steps, reasoning_steps) = ran.reasoning_steps
                 /\ Read(last.safety_checks, safety_checks) = ran.safety_checks
                 /\ last.react_cycles = ran.react_cycles
            ELSE /\ last.type = "error"
                 /\ last.success = run_except(raised).success
                 /\ last.response = run_except(raised).response
                 /\ Read(last.reasoning_steps, reasoning_steps)
                        = run_except(raised).reasoning_steps

\* C11 witness: a stream of two cycles ended with its final event.
C11_Witness ==
    /\ mode = "stream"
    /\ pc = "returned"
    /\ raised = ""
    /\ iteration_count = 2
    /\ events[Len(events)].type = "final"
    /\ events[Len(events)].response = synth_out

\* C12: stream() yields one intermediate event per node that ran to its end,
\* in execution order, and then exactly one last event, final if nothing was
\* raised and error otherwise; nothing is yielded after it.
C12_StreamShape ==
    mode = "stream" =>
        /\ \A i \in DOMAIN events :
              IF i <= Len(NodesDone)
              THEN events[i].type = "intermediate" /\ events[i].node = NodesDone[i]
              ELSE /\ i = Len(NodesDone) + 1
                   /\ i = Len(events)
                   /\ pc = "returned"
                   /\ events[i].type = IF raised = "" THEN "final" ELSE "error"
        /\ Len(events) >= Len(NodesDone)
        /\ pc = "returned" => Len(events) = Len(NodesDone) + 1

\* C12 witness: a stream ended by an error event after four node events.
C12_Witness ==
    /\ mode = "stream"
    /\ pc = "returned"
    /\ raised # ""
    /\ Len(events) = 5
    /\ events[5].type = "error"

\* C13: the reasoning log and the safety log read from an intermediate
\* event are, at any later time, what they were when it was yielded.
C13_EventsAreSnapshots ==
    \A i \in DOMAIN events :
        events[i].type = "intermediate" =>
            /\ Read(events[i].reasoning_steps, reasoning_steps)
                   = events[i].reasoning_steps.at_yield
            /\ Read(events[i].safety_checks, safety_checks)
                   = events[i].safety_checks.at_yield

\* C16: when the safety model call fails during the output check, the check
\* returns should_block = false and is_safe = true, the Synthesizer's text is
\* the response, and an output entry is appended to the safety log.
C16_OutputCheckFailsOpen ==
    (pc \in {"END", "returned"} /\ raised = "" /\ output_reply = ApiErrorReply) =>
        /\ output_result.should_block = FALSE
        /\ output_result.is_safe = TRUE
        /\ response = synth_out
        /\ Len(safety_checks) = 2
        /\ safety_checks[2].type = "output"
        /\ safety_checks[2].is_safe = TRUE

\* C17: no run executes in an engine whose max_iterations is below 1.
C17_MaxIterationsValidated ==
    visited # <<>> => max_iterations >= 1

\* the edges of the graph
Follows(a, b) ==
    <<a, b>> \in { <<"safety_check_input", "react_reason">>,
                   <<"react_reason", "react_act">>,
                   <<"react_act", "react_observe">>,
                   <<"react_observe", "react_reason">>,
                   <<"react_observe", "synthesize_response">>,
                   <<"synthesize_response", "safety_check_output">> }

\* C19: the nodes are entered in the order InputSafety, (Reason, Act,
\* Observe)+, Synthesize, OutputSafety: the input check first and once,
\* Synthesize at most once and right after an Observe, the output check only
\* right after Synthesize, and the graph ends only after the output check.
C19_NodeOrder ==
    /\ visited # <<>> => visited[1] = "safety_check_input"
    /\ \A i \in 2..Len(visited) : Follows(visited[i - 1], visited[i])
    /\ \A i \in 2..Len(visited) : visited[i] # "safety_check_input"
    /\ Cardinality({i \in DOMAIN visited : visited[i] = "synthesize_response"}) <= 1
    /\ (pc = "END" \/ (pc = "returned" /\ raised = "")) =>
           /\ visited[Len(visited)] = "safety_check_output"
           /\ \E i \in DOMAIN visited : visited[i] = "react_observe"

\* C19 witness: a successful run of two cycles, nine nodes entered.
C19_Witness ==
    /\ Succeeded
    /\ Len(visited) = 9
    /\ visited[8] = "synthesize_response"

\* C15: the delivery channel holds back the producer: stream_handler cannot
\* put a whole stream and its end marker on the queue while the consumer,
\* still waiting, has been handed nothing (any capacity below the length of
\* the stream forces a delivery first).
C15_Backpressure ==
    (handler = "done" /\ consumer = "waiting") => delivered # <<>>

\* C18: once the caller has gone away, the engine makes no further
\* collaborator call: the signal is seen before the next node runs.
C18_CancelStopsRun ==
    [][consumer = "gone" => calls' = calls]_vars

\* C20: every run reaches a terminal outcome: run() returns a record that is
\* either a success or a failure, and once it has returned nothing changes.
C20_Terminates ==
    /\ <>(pc = "returned" /\ result.success \in BOOLEAN)
    /\ [][pc = "returned" => vars' = vars]_vars

\* C20 witness: a run that went through every cycle its engine allows has
\* returned.
C20_Witness ==
    /\ Returned
    /\ max_iterations = MaxIter
    /\ iteration_count = MaxIter

Count(seq, x) == Cardinality({i \in DOMAIN seq : seq[i] = x})

\* What an invocation holds is what its own nodes produced: one safety log
\* entry per safety node it completed, one observation and one iteration per
\* Observe it completed, the data of its own last store query, and between
\* one and two reasoning steps per node it entered, the input check's first.
OwnHistory(inv) ==
    LET done == IF inv.raised = "" THEN inv.visited
                ELSE SubSeq(inv.visited, 1, Len(inv.visited) - 1)
    IN  /\ Len(inv.safety_checks)
               = Count(done, "safety_check_input") + Count(done, "safety_check_output")
        /\ Len(inv.observations) = Count(done, "react_observe")
        /\ inv.iteration_count = Count(done, "react_observe")
        /\ Len(inv.retrieved_data)
               = IF inv.retrieved_counts = <<>> THEN 0
                 ELSE inv.retrieved_counts[Len(inv.retrieved_counts)]
        /\ Len(inv.reasoning_steps) >= Len(done)
        /\ Len(inv.reasoning_steps) <= 2 * Len(inv.visited)
        /\ \A i \in DOMAIN inv.safety_checks :
               inv.safety_checks[i].type = IF i = 1 THEN "input" ELSE "output"

IsPrefix(s, t) == Len(s) <= Len(t) /\ SubSeq(t, 1, Len(s)) = s

\* C21: a run that returns success=true has completed at least one ReAct
\* cycle, has at least 5 steps in its reasoning log, and its result has the
\* fields response, reasoning_steps, safety_checks and react_cycles.
C21_SuccessShape ==
    Succeeded =>
        /\ {"response", "reasoning_steps", "safety_checks", "react_cycles"}
               \subseteq DOMAIN result
        /\ result.react_cycles >= 1
        /\ Len(result.reasoning_steps) >= 5

\* C21 witness: a successful run of exactly one cycle.
C21_Witness ==
    /\ Succeeded
    /\ result.react_cycles = 1
    /\ Len(result.safety_checks) = 2

\* C22: every step of a run leaves the reasoning log, the safety log and the
\* observations as they were or with entries added at the end.
C22_AppendOnly ==
    [][/\ IsPrefix(reasoning_steps, reasoning_steps')
       /\ IsPrefix(safety_checks, safety_checks')
       /\ IsPrefix(observations, observations')]_vars

\* C22 witness: a run has returned with two observations, two safety log
\* entries and the steps of two cycles.
C22_Witness ==
    /\ Returned
    /\ Len(observations) = 2
    /\ Len(safety_checks) = 2
    /\ Len(reasoning_steps) >= 16

\* C23: the iteration counter is the number of completed Observe steps and
\* the length of the observations list; only Observe changes it, by +1.
C23_IterationCountsObserves ==
    /\ [](/\ iteration_count = Count(NodesDone, "react_observe")
          /\ iteration_count = Len(observations))
    /\ [][iteration_count' # iteration_count =>
              /\ pc = "react_observe"
              /\ iteration_count' = iteration_count + 1]_vars

\* C23 witness: the third Observe of a run has completed.
C23_Witness ==
    /\ iteration_count = 3
    /\ Count(visited, "react_observe") = 3
    /\ raised = ""

LastStep == reasoning_steps[Len(reasoning_steps)].step

\* the graph has taken the edge from react_observe to synthesize_response
ObserveToSynthesize ==
    /\ pc = "synthesize_response"
    /\ visited[Len(visited)] = "react_observe"

\* C24: the continuation flag Observe computes is false whenever the run goes
\* from Observe to Synthesize, and the final state of a completed run never
\* has it set.
C24_FlagFalseAtSynthesize ==
    /\ ObserveToSynthesize => should_continue = FALSE
    /\ Succeeded => should_continue = FALSE

\* C25: when the Planner is invoked, the input entry of the safety log has
\* is_safe = true and should_block = false.
C25_PlannerOnlyAfterPass ==
    (\E i \in DOMAIN calls : calls[i] = "reason_and_plan") =>
        /\ safety_checks[1].type = "input"
        /\ safety_checks[1].is_safe = TRUE
        /\ safety_checks[1].should_block = FALSE

\* C26: every Act makes exactly one retrieval call, and the reasoning log
\* holds one "Data Retrieved" step per Act that has been executed.
C26_OneFoundStepPerAct ==
    LET acts == Count(NodesDone, "react_act")
    IN  /\ Count(calls, "query") = Count(visited, "react_act")
        /\ Cardinality({i \in DOMAIN reasoning_steps :
                            reasoning_steps[i].step = "Data Retrieved"}) = acts

\* C27: the decision step Observe logs agrees with the edge taken: after
\* "Need More Information" the next node is Reason, and when the next node is
\* Synthesize the step is "Ready to Synthesize" or "Observation Complete".
C27_DecisionStepMatchesEdge ==
    (visited # <<>> /\ visited[Len(visited)] = "react_observe" /\ raised = "") =>
        /\ LastStep = "Need More Information" => pc = "react_reason"
        /\ pc = "synthesize_response" =>
               LastStep \in {"Ready to Synthesize", "Observation Complete"}

\* C30: what check_input_safety and check_output_safety returned satisfies
\* should_block => ~is_safe; check_input_safety reports category "safe"
\* exactly when is_safe; and no refusal says the input was flagged for "safe".
C30_VerdictConsistent ==
    /\ safety_checks # <<>> =>
           /\ input_result.should_block => ~input_result.is_safe
           /\ (input_result.category = "safe") <=> input_result.is_safe
           /\ response # Refusal("safe")
    /\ Len(safety_checks) = 2 =>
           (output_result.should_block => ~output_result.is_safe)

\* the event as stream() yielded it: what was delivered without the key
\* stream_message added
Unstamped(event) == [k \in DOMAIN event \ {"elapsed_time"} |-> event[k]]

\* C28: whatever the producer thread did, the consumer is not left waiting:
\* once stream_handler has ended, the queue holds something for a waiting
\* consumer (the end marker at the latest).
C28_ConsumerNotStranded ==
    (handler # "running" /\ consumer = "waiting") => queue # <<>>

\* C29: stream_message yields the events of workflow.stream and nothing
\* else, each once and in the order produced; the end marker is put after
\* all of them, and the loop ends on it only when all were yielded.
C29_DeliveredInOrder ==
    /\ Len(delivered) <= Len(events)
    /\ \A i \in DOMAIN delivered :
           i <= Len(events) => Unstamped(delivered[i]) = events[i]
    /\ \A i \in DOMAIN queue :
           queue[i] = Sentinel => (i = Len(queue) /\ pc = "returned")
    /\ consumer = "done" => (delivered # <<>> /\ Len(delivered) = Len(events))


\* C31: when a node fails, the record run() returns has success = false, the
\* error text and an empty reasoning log, and has no safety log, observations
\* or cycle count, whatever the run had accumulated before the failure.
C31_FailureRecord ==
    (Returned /\ raised # "") =>
        /\ result.success = FALSE
        /\ "error" \in DOMAIN result
        /\ result.error = raised
        /\ result.reasoning_steps = <<>>
        /\ DOMAIN result \cap {"safety_checks", "observations", "react_cycles"} = {}

\* C31 witness: a run failed in its second cycle, with steps, a safety log
\* entry and an observation accumulated, and returned none of them.
C31_Witness ==
    /\ Returned
    /\ raised # ""
    /\ iteration_count = 1
    /\ Count(visited, "react_reason") = 2
    /\ Len(reasoning_steps) >= 8
    /\ safety_checks # <<>>
    /\ observations # <<>>
    /\ result.reasoning_steps = <<>>

====
